---- MODULE Spec2Model ----
(***************************************************************************)
(* A model of the blake-streams storage engine: StreamStorage (store.rs)   *)
(* over the stream types of core (stream.rs).  The KV index, the streams   *)
(* directory, the in-memory lock set and path cache, the live writers and  *)
(* the calls in progress are the state; every public operation is an       *)
(* action.  StreamWriter and StreamReader are not part of the two source   *)
(* files; their steps follow sections 4.6 and 4.7 of the specification.    *)
(***************************************************************************)
EXTENDS Integers, Sequences, FiniteSets, Bags, TLC

\* ------------------------------------------------------------------ bounds
MaxGen == 2        \* stream numbers are 0..MaxGen-1; generate_id stops at MaxGen
MaxLen == 1        \* a data file holds at most MaxLen bytes
MaxWriters == 2    \* at most MaxWriters StreamWriter values are alive at once

\* --------------------------------------------------------------- constants
SIG_LEN == 64      \* SignedHead.sig: [u8; 64]
HASH_LEN == 32     \* Head.hash: [u8; 32]

\* The store's own keypair (StreamStorage.key); a key is named by a number
\* that stands for both halves of the pair.
LocalKey == 1
Peers == {LocalKey, LocalKey + 1}
\* The unit key `()` of a replicated writer.
NoKey == 0

Bytes == {0}

\* ------------------------------------------------------------- stream.rs
StreamId_new(peer, stream) == [peer |-> peer, stream |-> stream]

\* The stream numbers sled's generator hands out within the bound.
Generated == 0..(MaxGen - 1)

\* The ids the callers pass in: stream 0 of the store's own peer and of a
\* foreign peer.  create_local_stream returns ids of every stream number.
Ids == {StreamId_new(p, 0) : p \in Peers}

\* Every id a record can be stored under.
AllIds == Ids \cup {StreamId_new(LocalKey, n) : n \in Generated}

\* No stream id at all (a call that names none).
NoId == [peer |-> 0, stream |-> 0]

\* AsBytes for StreamId (repr(C): peer first, then stream).
StreamId_as_bytes(id) == <<id.peer, id.stream>>

\* The id read back from a KV key (ZeroCopy<StreamId>::to_inner).
StreamId_from_bytes(k) == [peer |-> k[1], stream |-> k[2]]

\* Display / Debug: the peer's text, '.', the stream number.
StreamId_to_string(id) == <<id.peer, ".", id.stream>>

Head_new(id) ==
    [id |-> id,
     hash |-> <<175, 19, 73, 185, 245, 249, 161, 166, 160, 64, 77, 234, 54, 220,
                201, 73, 155, 203, 37, 201, 173, 193, 18, 183, 204, 154, 147,
                202, 228, 31, 50, 98>>,
     len |-> 0]

\* AsBytes for Head (repr(C): id, hash, len).
Head_as_bytes(h) == StreamId_as_bytes(h.id) \o h.hash \o <<h.len>>

ZeroSig == [i \in 1..SIG_LEN |-> 0]

SignedHead_new(id) == [head |-> Head_new(id), sig |-> ZeroSig]

SignedHead_default == SignedHead_new(StreamId_new(0, 0))

\* Ed25519, idealised: the signature of msg under key is a function of both
\* that no other (key, msg) produces, and it is never the all-zero array.
Keypair_sign(key, msg) ==
    [i \in 1..SIG_LEN |->
        IF i = 1 THEN key ELSE IF i - 1 <= Len(msg) THEN msg[i - 1] ELSE 0]

PublicKey_verify_strict(peer, msg, sig) == sig = Keypair_sign(peer, msg)

\* SignedHead::verify
SignedHead_verify(sh, id) ==
    IF id # sh.head.id THEN FALSE
    ELSE PublicKey_verify_strict(id.peer, Head_as_bytes(sh.head), sh.sig)

\* SignedHead::sign; the debug_assert_eq! on the key is the caller's (Commit).
SignedHead_sign(sh, key) ==
    [sh EXCEPT !.sig = Keypair_sign(key, Head_as_bytes(sh.head))]

\* set_signature that stores the signature without verifying it.
SignedHead_set_signature_unverified(sh, sig) ==
    [ok |-> TRUE, head |-> [sh EXCEPT !.sig = sig]]

\* SignedHead::set_signature: [ok, head]
SignedHead_set_signature(sh, sig) ==
    IF PublicKey_verify_strict(sh.head.id.peer, Head_as_bytes(sh.head), sig)
    THEN [ok |-> TRUE, head |-> [sh EXCEPT !.sig = sig]]
    ELSE [ok |-> FALSE, head |-> sh]

\* Stream::new with an outboard that is not the encoding of length 0.
Stream_new_no_outboard(id) == [head |-> SignedHead_new(id), outboard |-> <<>>]

Stream_new(id) ==
    [head |-> SignedHead_new(id), outboard |-> <<0, 0, 0, 0, 0, 0, 0, 0>>]

\* Stream::to_bytes: the signed head at a fixed position, then the outboard.
Stream_to_bytes(s) == Head_as_bytes(s.head.head) \o s.head.sig \o s.outboard

\* The archived view of a KV value (ZeroCopy<Stream>: deref and to_inner).
ZeroCopy_to_inner(v) ==
    [head |->
        [head |-> [id |-> StreamId_from_bytes(SubSeq(v, 1, 2)),
                   hash |-> SubSeq(v, 3, 2 + HASH_LEN),
                   len |-> v[3 + HASH_LEN]],
         sig |-> SubSeq(v, 4 + HASH_LEN, 3 + HASH_LEN + SIG_LEN)],
     outboard |-> SubSeq(v, 4 + HASH_LEN + SIG_LEN, Len(v))]

\* ------------------------------------------------- the hash-tree primitive
\* bao::encode::outboard(data): the root is the fixed digest for the empty
\* input and, idealised, a digest no other input has otherwise; for inputs of
\* at most one chunk the outboard is the 8-byte little-endian length alone.
\* The root of the empty input: af1349b9 f5f9a1a6 a0404dea 36dcc949
\* 9bcb25c9 adc112b7 cc9a93ca e41f3262.
BaoEmptyRoot ==
    <<175, 19, 73, 185, 245, 249, 161, 166, 160, 64, 77, 234, 54, 220, 201, 73,
      155, 203, 37, 201, 173, 193, 18, 183, 204, 154, 147, 202, 228, 31, 50, 98>>

BaoRoot(data) ==
    IF data = <<>> THEN BaoEmptyRoot
    ELSE [i \in 1..HASH_LEN |-> IF i <= Len(data) THEN data[i] + 1 ELSE 0]

BaoOutboard(data) == [i \in 1..8 |-> IF i = 1 THEN Len(data) ELSE 0]

\* ------------------------------------------------------------------ state
VARIABLES
    debug_assertions,  \* the build: debug_assert! is compiled in or out
    opened,            \* a StreamStorage value exists (open returned Ok)
    db,                \* sled::Db: key bytes -> value bytes (on disk)
    idgen,             \* sled's id generator: the next generate_id()
    dirExists,         \* <dir>/streams exists
    files,             \* <dir>/streams: path -> the data file's bytes
    locks,             \* StreamStorage.locks, shared with every StreamLock
    paths,             \* StreamStorage.paths: the id -> path cache
    writers,           \* the live StreamWriter values, a bag
    remover,           \* the id remove_stream holds its lock on, or NoId
    generating,        \* create_local_stream calls in progress: the bag of
                       \* the numbers generated and not yet inserted
    ret,               \* the last call and what it returned
    issued,            \* the bag of the ids create_local_stream has returned
    roundtrip          \* a StreamId on its way to its text form and back

vars == <<debug_assertions, opened, db, idgen, dirExists, files, locks, paths,
          writers, remover, generating, ret, issued, roundtrip>>

EmptyMap == [x \in {} |-> <<>>]

MapPut(m, k, v) == [x \in DOMAIN m \cup {k} |-> IF x = k THEN v ELSE m[x]]

MapDel(m, k) == [x \in DOMAIN m \ {k} |-> m[x]]

Min(a, b) == IF a <= b THEN a ELSE b

Returned(op, id, res) == [op |-> op, id |-> id, res |-> res]

StorageInit ==
    /\ debug_assertions \in BOOLEAN
    /\ opened = FALSE
    /\ db = EmptyMap
    /\ idgen = 0
    /\ dirExists = FALSE
    /\ files = EmptyMap
    /\ locks = {}
    /\ paths = EmptyMap
    /\ writers = EmptyBag
    /\ remover = NoId
    /\ generating = EmptyBag
    /\ ret = Returned("none", NoId, "Ok")
    /\ issued = EmptyBag

\* No identifier is being converted while the storage engine runs.
NoRoundtrip == [step |-> "none", id |-> NoId, text |-> <<>>, parsed |-> [ok |-> FALSE, id |-> NoId]]

Init == StorageInit /\ roundtrip = NoRoundtrip

\* ---------------------------------------------------------------- borrows
\* A `&self` call (create_local_stream) is in progress on some thread.
SharedBorrowed == generating # EmptyBag

\* A `&mut self` call (remove_stream) is in progress.
MutBorrowed == remover # NoId

\* A `&self` method may start: the storage exists and is not borrowed mutably.
CanBorrow == opened /\ ~MutBorrowed

\* A `&mut self` method may start: the storage exists and is not borrowed.
CanBorrowMut == opened /\ ~MutBorrowed /\ ~SharedBorrowed

\* ------------------------------------------------------ store.rs helpers
\* StreamStorage::get_stream: the value under the id's bytes, if any.
HasStream(id) == StreamId_as_bytes(id) \in DOMAIN db

get_stream(id) == db[StreamId_as_bytes(id)]

\* lock_stream without the test of insert's result: every call gets a token.
lock_stream_unchecked(lk, id) == [ok |-> TRUE, locks |-> lk \cup {id}]

\* lock_stream that, finding the id busy, takes it out of the set.
lock_stream_release_on_busy(lk, id) ==
    IF id \in lk THEN [ok |-> FALSE, locks |-> lk \ {id}]
    ELSE [ok |-> TRUE, locks |-> lk \cup {id}]

\* StreamStorage::lock_stream: insert into the set; an id already there is
\* busy.  [ok, locks]
lock_stream(lk, id) ==
    IF id \in lk THEN [ok |-> FALSE, locks |-> lk]
    ELSE [ok |-> TRUE, locks |-> lk \cup {id}]

\* Drop for StreamLock: debug_assert!(locks.remove(&self.id)) evaluates its
\* argument only in a build with debug assertions.
StreamLock_drop(lk, id) == IF debug_assertions THEN lk \ {id} ELSE lk

\* StreamStorage::stream_path: the cache after the call, and the path.
stream_path_cache(id) ==
    IF id \in DOMAIN paths THEN paths ELSE MapPut(paths, id, StreamId_to_string(id))

stream_path(id) == stream_path_cache(id)[id]

\* StreamStorage::streams: every (id, signed head) of the KV.
streams == {<<StreamId_from_bytes(k), ZeroCopy_to_inner(db[k]).head>> : k \in DOMAIN db}

\* ------------------------------------------------------------ StreamStorage
\* StreamStorage::open: sled::open creates or opens <dir>/db; create_dir
\* fails on a directory that exists.
Open ==
    /\ ~opened
    /\ IF dirExists
       THEN /\ ret' = Returned("open", NoId, "IoError")
            /\ UNCHANGED <<opened, dirExists, locks, paths>>
       ELSE /\ opened' = TRUE
            /\ dirExists' = TRUE
            /\ locks' = {}
            /\ paths' = EmptyMap
            /\ ret' = Returned("open", NoId, "Ok")
    /\ UNCHANGED <<roundtrip, debug_assertions, db, idgen, files, writers, remover,
                   generating, issued>>

\* The store is closed: its writers are gone and the StreamStorage value is
\* dropped; the files and the KV stay on disk.
Close ==
    /\ opened
    /\ ~MutBorrowed
    /\ ~SharedBorrowed
    /\ writers = EmptyBag
    /\ opened' = FALSE
    /\ ret' = Returned("close", NoId, "Ok")
    /\ UNCHANGED <<roundtrip, debug_assertions, db, idgen, dirExists, files, locks, paths,
                   writers, remover, generating, issued>>

\* StreamStorage::streams, read to its end.
ListStreams ==
    /\ CanBorrow
    /\ ret' = Returned("streams", NoId, "Ok")
    /\ UNCHANGED <<roundtrip, debug_assertions, opened, db, idgen, dirExists, files, locks,
                   paths, writers, remover, generating, issued>>

\* A generator that is read and never advanced.
generate_id_stuck(counter) == [id |-> counter, next |-> counter]

\* tx.generate_id(): sled's monotonic counter.  [id, next]
generate_id(counter) == [id |-> counter, next |-> counter + 1]

\* create_replicated_stream that builds the record from a default id and
\* not from the id it stores it under.
create_replicated_stream_default_id(id) ==
    MapPut(db, StreamId_as_bytes(id), Stream_to_bytes(Stream_new(StreamId_new(0, 0))))

\* The KV after StreamStorage::create_replicated_stream(id).
create_replicated_stream(id) ==
    MapPut(db, StreamId_as_bytes(id), Stream_to_bytes(Stream_new(id)))

\* StreamStorage::create_local_stream, first half: the transaction that
\* generates the stream number.
CreateLocalGenerate ==
    /\ CanBorrow
    /\ idgen < MaxGen
    /\ generating' = generating (+) SetToBag({generate_id(idgen).id})
    /\ idgen' = generate_id(idgen).next
    /\ ret' = Returned("generate_id", NoId, "Ok")
    /\ UNCHANGED <<roundtrip, debug_assertions, opened, db, dirExists, files, locks, paths,
                   writers, remover, issued>>

\* The peer create_local_stream puts in the id: self.key.public.
create_local_peer == LocalKey

\* StreamStorage::create_local_stream, second half: the id is built, the
\* empty record inserted and the id returned.
CreateLocalInsert(stream) ==
    /\ BagIn(stream, generating)
    /\ LET id == StreamId_new(create_local_peer, stream) IN
       /\ db' = create_replicated_stream(id)
       /\ issued' = issued (+) SetToBag({id})
       /\ ret' = Returned("create_local", id, "Ok")
    /\ generating' = generating (-) SetToBag({stream})
    /\ UNCHANGED <<roundtrip, debug_assertions, opened, idgen, dirExists, files, locks,
                   paths, writers, remover>>

\* StreamStorage::create_replicated_stream, called by the user.
CreateReplicated(id) ==
    /\ CanBorrow
    /\ db' = create_replicated_stream(id)
    /\ ret' = Returned("create_replicated", id, "Ok")
    /\ UNCHANGED <<roundtrip, debug_assertions, opened, idgen, dirExists, files, locks,
                   paths, writers, remover, generating, issued>>

\* ------------------------------------------------------------- StreamWriter
\* The bytes an incremental encoder seeded with the record holds: the first
\* head.len bytes of the data file.
EncoderSeed(fs, path, stream) ==
    IF path \in DOMAIN fs
    THEN SubSeq(fs[path], 1, Min(stream.head.head.len, Len(fs[path])))
    ELSE <<>>

\* StreamWriter::new(path, stream, lock, db, key): the writer owns the lock
\* token, the data file opened for append (created when absent), the encoder
\* and the key.
StreamWriter_new(path, stream, lock, key) ==
    [id |-> stream.head.head.id, lock |-> lock, key |-> key,
     data |-> EncoderSeed(files, path, stream)]

\* The data files after StreamWriter::new opened the file at path.
StreamWriter_open_file(path) ==
    IF path \in DOMAIN files THEN files ELSE MapPut(files, path, <<>>)

\* The bodies of append_local_stream and append_replicated_stream, which
\* differ in the key they hand to the writer.  ioOk: StreamWriter::new could
\* open the data file.
AppendStream(op, id, key, ioOk) ==
    LET locked == lock_stream(locks, id) IN
    IF ~locked.ok
    THEN /\ locks' = locked.locks
         /\ ret' = Returned(op, id, "Busy")
         /\ UNCHANGED <<paths, files, writers>>
    ELSE IF ~HasStream(id)
    THEN /\ locks' = StreamLock_drop(locked.locks, id)
         /\ ret' = Returned(op, id, "NotFound")
         /\ UNCHANGED <<paths, files, writers>>
    ELSE IF ~ioOk
    THEN /\ paths' = stream_path_cache(id)
         /\ locks' = StreamLock_drop(locked.locks, id)
         /\ ret' = Returned(op, id, "IoError")
         /\ UNCHANGED <<files, writers>>
    ELSE /\ paths' = stream_path_cache(id)
         /\ locks' = locked.locks
         /\ files' = StreamWriter_open_file(stream_path(id))
         /\ writers' = writers (+) SetToBag({StreamWriter_new(
                stream_path(id), ZeroCopy_to_inner(get_stream(id)), id, key)})
         /\ ret' = Returned(op, id, "Ok")

\* The model holds at most MaxWriters writers: a call that would return one
\* more is left out, a call that fails is not.
WriterFits(id, ioOk) ==
    \/ BagCardinality(writers) < MaxWriters
    \/ ~lock_stream(locks, id).ok
    \/ ~HasStream(id)
    \/ ~ioOk

\* StreamStorage::append_local_stream
AppendLocal(id, ioOk) ==
    /\ CanBorrowMut
    /\ WriterFits(id, ioOk)
    /\ AppendStream("append_local", id, LocalKey, ioOk)
    /\ UNCHANGED <<roundtrip, debug_assertions, opened, db, idgen, dirExists, remover,
                   generating, issued>>

\* StreamStorage::append_replicated_stream
AppendReplicated(id, ioOk) ==
    /\ CanBorrowMut
    /\ WriterFits(id, ioOk)
    /\ AppendStream("append_replicated", id, NoKey, ioOk)
    /\ UNCHANGED <<roundtrip, debug_assertions, opened, db, idgen, dirExists, remover,
                   generating, issued>>

\* StreamStorage::remove_stream up to the lock: Busy returns at once,
\* otherwise the call goes on holding its token.
RemoveBegin(id) ==
    /\ CanBorrowMut
    /\ LET locked == lock_stream(locks, id) IN
       IF ~locked.ok
       THEN /\ locks' = locked.locks
            /\ ret' = Returned("remove", id, "Busy")
            /\ UNCHANGED remover
       ELSE /\ locks' = locked.locks
            /\ remover' = id
            /\ ret' = Returned("remove_locked", id, "Ok")
    /\ UNCHANGED <<roundtrip, debug_assertions, opened, db, idgen, dirExists, files, paths,
                   writers, generating, issued>>

\* remove_stream that unlinks the file and leaves the KV entry.
remove_stream_db_keep(id) == db

\* The KV after remove_stream's self.db.remove(id.as_bytes()).
remove_stream_db(id) == MapDel(db, StreamId_as_bytes(id))

\* StreamStorage::remove_stream from the lock on: remove_file fails on a
\* file that does not exist; then the KV entry goes; the token is dropped on
\* every way out.
RemoveFinish ==
    /\ remover # NoId
    /\ paths' = stream_path_cache(remover)
    /\ locks' = StreamLock_drop(locks, remover)
    /\ IF stream_path(remover) \notin DOMAIN files
       THEN /\ ret' = Returned("remove", remover, "IoError")
            /\ UNCHANGED <<files, db>>
       ELSE /\ files' = MapDel(files, stream_path(remover))
            /\ db' = remove_stream_db(remover)
            /\ ret' = Returned("remove", remover, "Ok")
    /\ remover' = NoId
    /\ UNCHANGED <<roundtrip, debug_assertions, opened, idgen, dirExists, writers,
                   generating, issued>>

\* ------------------------------------------------------------- readers
\* StreamReader::new(path, head, start, len): opens the data file read-only
\* and binds the range to the head snapshot.
StreamReader_new(path, head, start, len) ==
    IF path \notin DOMAIN files THEN "IoError"
    ELSE IF start + len > head.len THEN "RangeOutOfBounds"
    ELSE "Ok"

\* StreamStorage::slice
Slice(id, start, len) ==
    /\ CanBorrowMut
    /\ IF ~HasStream(id)
       THEN /\ ret' = Returned("slice", id, "NotFound")
            /\ UNCHANGED paths
       ELSE /\ paths' = stream_path_cache(id)
            /\ ret' = Returned("slice", id,
                   StreamReader_new(stream_path(id),
                       ZeroCopy_to_inner(get_stream(id)).head.head, start, len))
    /\ UNCHANGED <<roundtrip, debug_assertions, opened, db, idgen, dirExists, files, locks,
                   writers, remover, generating, issued>>

\* SliceExtractor::new_outboard(file, outboard, start, len) read to its end,
\* for a tree of one chunk: the length header of the outboard, then the
\* chunk, which is the first `length` bytes of the file whatever the range.
\* [ok, data]
SliceExtractor_read(file, outboard, start, len) ==
    LET header == SubSeq(outboard, 1, 8) IN
    IF Len(file) < header[1]
    THEN [ok |-> FALSE, data |-> header \o file]
    ELSE [ok |-> TRUE, data |-> header \o SubSeq(file, 1, header[1])]

\* extract without `slice.head = stream.head`: the caller's Slice keeps the
\* head it came with.
extract_slice_stale_head(id, start, len) ==
    LET stream == ZeroCopy_to_inner(get_stream(id))
        read == SliceExtractor_read(files[stream_path(id)], stream.outboard,
                    start, len)
    IN [ok |-> read.ok, head |-> SignedHead_default, data |-> read.data]

\* The Slice that StreamStorage::extract leaves in `slice` when the record
\* and the data file exist: the record's signed head and the bytes read.
\* [ok, head, data]
extract_slice(id, start, len) ==
    LET stream == ZeroCopy_to_inner(get_stream(id))
        read == SliceExtractor_read(files[stream_path(id)], stream.outboard,
                    start, len)
    IN [ok |-> read.ok, head |-> stream.head, data |-> read.data]

\* StreamStorage::extract
Extract(id, start, len) ==
    /\ CanBorrowMut
    /\ IF ~HasStream(id)
       THEN /\ ret' = Returned("extract", id, "NotFound")
            /\ UNCHANGED paths
       ELSE /\ paths' = stream_path_cache(id)
            /\ IF stream_path(id) \notin DOMAIN files
               THEN ret' = Returned("extract", id, "IoError")
               ELSE ret' = Returned("extract", id,
                               IF extract_slice(id, start, len).ok
                               THEN "Ok" ELSE "IoError")
    /\ UNCHANGED <<roundtrip, debug_assertions, opened, db, idgen, dirExists, files, locks,
                   writers, remover, generating, issued>>

\* ------------------------------------------------------ writer sessions
\* The writer leaves the bag; its StreamLock is dropped with it.
WriterDropped(w) ==
    /\ writers' = writers (-) SetToBag({w})
    /\ locks' = StreamLock_drop(locks, w.lock)

\* StreamWriter::write(chunk): the chunk goes to the end of the data file
\* and into the encoder; the KV is not touched.
Write(w, b) ==
    /\ BagIn(w, writers)
    /\ w.key # NoKey
    /\ LET path == StreamId_to_string(w.id) IN
       /\ path \in DOMAIN files
       /\ Len(files[path]) < MaxLen
       /\ files' = [files EXCEPT ![path] = Append(@, b)]
    /\ writers' = (writers (-) SetToBag({w}))
                    (+) SetToBag({[w EXCEPT !.data = Append(@, b)]})
    /\ ret' = Returned("write", w.id, "Ok")
    /\ UNCHANGED <<roundtrip, debug_assertions, opened, db, idgen, dirExists, locks, paths,
                   remover, generating, issued>>

\* The record a commit stores: the head of the encoder's bytes under the
\* writer's id, with the signature given.
CommittedHead(w) ==
    [head |-> [id |-> w.id, hash |-> BaoRoot(w.data), len |-> Len(w.data)],
     sig |-> ZeroSig]

\* StreamWriter<Arc<Keypair>>::commit: finalize, sign, write the record
\* under the id.  SignedHead::sign asserts, in a build with debug
\* assertions, that the key is the id's peer: the panic unwinds the session.
Commit(w) ==
    /\ BagIn(w, writers)
    /\ w.key # NoKey
    /\ IF debug_assertions /\ w.key # w.id.peer
       THEN /\ WriterDropped(w)
            /\ ret' = Returned("commit", w.id, "Panic")
            /\ UNCHANGED db
       ELSE /\ db' = MapPut(db, StreamId_as_bytes(w.id),
                        Stream_to_bytes([head |-> SignedHead_sign(CommittedHead(w), w.key),
                                         outboard |-> BaoOutboard(w.data)]))
            /\ ret' = Returned("commit", w.id, "Ok")
            /\ UNCHANGED <<writers, locks>>
    /\ UNCHANGED <<roundtrip, debug_assertions, opened, idgen, dirExists, files, paths,
                   remover, generating, issued>>

\* The replicated writer's append of one verified chunk with the signed
\* head a peer supplied for it (signed by `signer`): the signature is set
\* with SignedHead::set_signature; on a mismatch nothing changes.
ReplicatedAppend(w, b, signer) ==
    /\ BagIn(w, writers)
    /\ w.key = NoKey
    /\ LET path == StreamId_to_string(w.id)
           next == [w EXCEPT !.data = Append(@, b)]
           signed == SignedHead_set_signature(CommittedHead(next),
                        Keypair_sign(signer, Head_as_bytes(CommittedHead(next).head)))
       IN /\ path \in DOMAIN files
          /\ Len(files[path]) < MaxLen
          /\ IF ~signed.ok
             THEN /\ ret' = Returned("replicated_append", w.id, "SignatureMismatch")
                  /\ UNCHANGED <<files, writers, db>>
             ELSE /\ files' = [files EXCEPT ![path] = Append(@, b)]
                  /\ writers' = (writers (-) SetToBag({w})) (+) SetToBag({next})
                  /\ db' = MapPut(db, StreamId_as_bytes(w.id),
                              Stream_to_bytes([head |-> signed.head,
                                               outboard |-> BaoOutboard(next.data)]))
                  /\ ret' = Returned("replicated_append", w.id, "Ok")
    /\ UNCHANGED <<roundtrip, debug_assertions, opened, idgen, dirExists, locks, paths,
                   remover, generating, issued>>

\* The writer goes out of scope.
DropWriter(w) ==
    /\ BagIn(w, writers)
    /\ WriterDropped(w)
    /\ ret' = Returned("drop", w.id, "Ok")
    /\ UNCHANGED <<roundtrip, debug_assertions, opened, db, idgen, dirExists, files, paths,
                   remover, generating, issued>>

\* ------------------------------------------------------------------- Next
Ranges == 0..(MaxLen + 1)

WriterSet == BagToSet(writers)

Next ==
    \/ Open
    \/ Close
    \/ ListStreams
    \/ CreateLocalGenerate
    \/ \E stream \in BagToSet(generating) : CreateLocalInsert(stream)
    \/ \E id \in Ids : CreateReplicated(id)
    \/ \E id \in Ids, ioOk \in BOOLEAN : AppendLocal(id, ioOk)
    \/ \E id \in Ids, ioOk \in BOOLEAN : AppendReplicated(id, ioOk)
    \/ \E id \in Ids : RemoveBegin(id)
    \/ RemoveFinish
    \/ \E id \in Ids, start \in Ranges, len \in Ranges : Slice(id, start, len)
    \/ \E id \in Ids, start \in Ranges, len \in Ranges : Extract(id, start, len)
    \/ \E w \in WriterSet, b \in Bytes : Write(w, b)
    \/ \E w \in WriterSet : Commit(w)
    \/ \E w \in WriterSet, b \in Bytes, signer \in Peers : ReplicatedAppend(w, b, signer)
    \/ \E w \in WriterSet : DropWriter(w)

Spec == Init /\ [][Next]_vars

\* ------------------------------------------- the text form of a StreamId
\* StreamId.peer is [u8; 32], StreamId.stream is a u64.  Here a peer is its
\* 32 bytes and a stream number its 8 bytes, most significant first; a text
\* is a sequence of characters.
PEER_LEN == 32

U64_LEN == 8

\* base64::URL_SAFE_NO_PAD: the alphabet of RFC 4648 section 5.
URL_SAFE ==
    <<"A", "B", "C", "D", "E", "F", "G", "H", "I", "J", "K", "L", "M",
      "N", "O", "P", "Q", "R", "S", "T", "U", "V", "W", "X", "Y", "Z",
      "a", "b", "c", "d", "e", "f", "g", "h", "i", "j", "k", "l", "m",
      "n", "o", "p", "q", "r", "s", "t", "u", "v", "w", "x", "y", "z",
      "0", "1", "2", "3", "4", "5", "6", "7", "8", "9", "-", "_">>

\* base64::STANDARD_NO_PAD: the alphabet of RFC 4648 section 4.
STANDARD == [i \in 1..64 |-> IF i = 63 THEN "+" ELSE IF i = 64 THEN "/" ELSE URL_SAFE[i]]

\* The 6-bit groups of bytes, three bytes to four groups; the last group of
\* a tail of one or two bytes is filled with zero bits.
RECURSIVE Base64Sextets(_)
Base64Sextets(bytes) ==
    IF Len(bytes) = 0 THEN <<>>
    ELSE IF Len(bytes) = 1
    THEN <<bytes[1] \div 4, (bytes[1] % 4) * 16>>
    ELSE IF Len(bytes) = 2
    THEN <<bytes[1] \div 4,
           (bytes[1] % 4) * 16 + bytes[2] \div 16,
           (bytes[2] % 16) * 4>>
    ELSE <<bytes[1] \div 4,
           (bytes[1] % 4) * 16 + bytes[2] \div 16,
           (bytes[2] % 16) * 4 + bytes[3] \div 64,
           bytes[3] % 64>>
         \o Base64Sextets(SubSeq(bytes, 4, Len(bytes)))

\* base64::encode_config(bytes, config) without padding
base64_encode_config(bytes, alphabet) ==
    LET sextets == Base64Sextets(bytes)
    IN [i \in 1..Len(sextets) |-> alphabet[sextets[i] + 1]]

\* The bytes of 6-bit groups, four groups to three bytes; a tail of two or
\* three groups gives one or two bytes.
RECURSIVE Base64Bytes(_)
Base64Bytes(sextets) ==
    IF Len(sextets) < 2 THEN <<>>
    ELSE IF Len(sextets) = 2
    THEN <<sextets[1] * 4 + sextets[2] \div 16>>
    ELSE IF Len(sextets) = 3
    THEN <<sextets[1] * 4 + sextets[2] \div 16,
           (sextets[2] % 16) * 16 + sextets[3] \div 4>>
    ELSE <<sextets[1] * 4 + sextets[2] \div 16,
           (sextets[2] % 16) * 16 + sextets[3] \div 4,
           (sextets[3] % 4) * 64 + sextets[4]>>
         \o Base64Bytes(SubSeq(sextets, 5, Len(sextets)))

\* base64::decode_config(text, config) without padding: an error on a
\* character outside the alphabet, on a length of 1 mod 4, and on a last
\* character with bits set that belong to no byte.  [ok, bytes]
base64_decode_config(text, alphabet) ==
    LET valid == \A i \in 1..Len(text) : \E v \in 1..64 : alphabet[v] = text[i]
        sextets == [i \in 1..Len(text) |->
                       (CHOOSE v \in 1..64 : alphabet[v] = text[i]) - 1]
        tail == Len(text) % 4
    IN IF ~valid \/ tail = 1 THEN [ok |-> FALSE, bytes |-> <<>>]
       ELSE IF tail = 2 /\ sextets[Len(text)] % 16 # 0
       THEN [ok |-> FALSE, bytes |-> <<>>]
       ELSE IF tail = 3 /\ sextets[Len(text)] % 4 # 0
       THEN [ok |-> FALSE, bytes |-> <<>>]
       ELSE [ok |-> TRUE, bytes |-> Base64Bytes(sextets)]

\* Vec::resize(n, fill): truncated or filled to n elements.
Vec_resize(bytes, n, fill) ==
    [i \in 1..n |-> IF i <= Len(bytes) THEN bytes[i] ELSE fill]

DecimalDigits == <<"0", "1", "2", "3", "4", "5", "6", "7", "8", "9">>

U64_ZERO == [i \in 1..U64_LEN |-> 0]

\* n \div 10 for the first k bytes of n, and the remainder carried out of
\* them.  [q, r]
RECURSIVE U64DivMod10(_, _)
U64DivMod10(n, k) ==
    IF k = 0 THEN [q |-> <<>>, r |-> 0]
    ELSE LET up == U64DivMod10(n, k - 1)
             cur == up.r * 256 + n[k]
         IN [q |-> Append(up.q, cur \div 10), r |-> cur % 10]

\* The decimal digits of n, most significant first; none for 0.
RECURSIVE U64Digits(_)
U64Digits(n) ==
    IF n = U64_ZERO THEN <<>>
    ELSE LET d == U64DivMod10(n, U64_LEN)
         IN Append(U64Digits(d.q), d.r)

\* <u64 as Display>::fmt
u64_fmt(n) ==
    IF n = U64_ZERO THEN <<"0">>
    ELSE LET digits == U64Digits(n)
         IN [i \in 1..Len(digits) |-> DecimalDigits[digits[i] + 1]]

\* n * 10 + d on the last k bytes of n, and the carry out of them.  [v, c]
RECURSIVE U64MulAdd10(_, _, _)
U64MulAdd10(n, d, k) ==
    IF k = 0 THEN [v |-> <<>>, c |-> d]
    ELSE LET low == U64MulAdd10(n, d, k - 1)
             cur == n[U64_LEN - k + 1] * 10 + low.c
         IN [v |-> <<cur % 256>> \o low.v, c |-> cur \div 256]

\* The number of the first k digits, checked_mul and checked_add at each
\* digit.  [ok, value]
RECURSIVE U64Accumulate(_, _)
U64Accumulate(digits, k) ==
    IF k = 0 THEN [ok |-> TRUE, value |-> U64_ZERO]
    ELSE LET up == U64Accumulate(digits, k - 1)
             next == U64MulAdd10(up.value, digits[k], U64_LEN)
         IN IF ~up.ok \/ next.c # 0
            THEN [ok |-> FALSE, value |-> U64_ZERO]
            ELSE [ok |-> TRUE, value |-> next.v]

\* <u64 as FromStr>::from_str: an optional '+', then one decimal digit or
\* more; an error on an empty text, on another character, on overflow.
u64_from_str(text) ==
    LET body == IF Len(text) > 0 /\ text[1] = "+"
                THEN SubSeq(text, 2, Len(text)) ELSE text
        valid == /\ Len(body) > 0
                 /\ \A i \in 1..Len(body) : \E d \in 1..10 : DecimalDigits[d] = body[i]
        digits == [i \in 1..Len(body) |->
                      (CHOOSE d \in 1..10 : DecimalDigits[d] = body[i]) - 1]
    IN IF ~valid THEN [ok |-> FALSE, value |-> U64_ZERO]
       ELSE U64Accumulate(digits, Len(digits))

\* str::split_once(c): the text before and after the first c.
str_split_once(text, c) ==
    IF \A i \in 1..Len(text) : text[i] # c
    THEN [some |-> FALSE, before |-> <<>>, after |-> <<>>]
    ELSE LET at == CHOOSE i \in 1..Len(text) :
                      text[i] = c /\ \A j \in 1..(i - 1) : text[j] # c
         IN [some |-> TRUE, before |-> SubSeq(text, 1, at - 1),
             after |-> SubSeq(text, at + 1, Len(text))]

\* <StreamId as Debug>::fmt
StreamId_Debug_fmt(id) ==
    base64_encode_config(id.peer, URL_SAFE) \o <<".">> \o u64_fmt(id.stream)

\* <StreamId as Display>::fmt
StreamId_Display_fmt(id) == StreamId_Debug_fmt(id)

StreamId_Err == [ok |-> FALSE, id |-> StreamId_new([i \in 1..PEER_LEN |-> 0], U64_ZERO)]

\* from_str decoding the peer with the standard alphabet.
StreamId_from_str_standard(s) ==
    LET split == str_split_once(s, ".")
        bytes == base64_decode_config(split.before, STANDARD)
        stream == u64_from_str(split.after)
    IN IF ~split.some \/ ~bytes.ok \/ ~stream.ok THEN StreamId_Err
       ELSE [ok |-> TRUE,
             id |-> StreamId_new(Vec_resize(bytes.bytes, PEER_LEN, 0), stream.value)]

\* <StreamId as FromStr>::from_str.  [ok, id]
StreamId_from_str(s) ==
    LET split == str_split_once(s, ".")
        bytes == base64_decode_config(split.before, URL_SAFE)
        stream == u64_from_str(split.after)
    IN IF ~split.some \/ ~bytes.ok \/ ~stream.ok THEN StreamId_Err
       ELSE [ok |-> TRUE,
             id |-> StreamId_new(Vec_resize(bytes.bytes, PEER_LEN, 0), stream.value)]

\* ------------------------------------------- formatting and parsing ids
\* The bytes a peer array and a stream number are made of below: the ends
\* of the byte range and of both base64 alphabets' last two symbols.
SampleBytes == {0, 1, 251, 255}

\* Peer arrays: a first byte, a last byte (in the tail of two bytes that
\* base64 encodes to three characters) and the byte of every place between.
SamplePeers ==
    {[i \in 1..PEER_LEN |-> IF i = 1 THEN first ELSE IF i = PEER_LEN THEN last ELSE fill] :
        first \in SampleBytes, last \in SampleBytes, fill \in SampleBytes}

\* Stream numbers: 0, 1, 9, 10, 255, and the numbers with every higher
\* byte 255, up to u64::MAX.
SampleStreams ==
    {[i \in 1..U64_LEN |-> IF i = U64_LEN THEN low ELSE high] :
        low \in {0, 1, 9, 10, 255}, high \in {0, 255}}

IdentInit ==
    /\ StorageInit
    /\ debug_assertions
    /\ \E peer \in SamplePeers, stream \in SampleStreams :
          roundtrip = [NoRoundtrip EXCEPT !.step = "new",
                                          !.id = StreamId_new(peer, stream)]

\* format!("{}", id) or format!("{:?}", id)
Format(debug) ==
    /\ roundtrip.step = "new"
    /\ roundtrip' = [roundtrip EXCEPT
                        !.step = "formatted",
                        !.text = IF debug THEN StreamId_Debug_fmt(roundtrip.id)
                                 ELSE StreamId_Display_fmt(roundtrip.id)]
    /\ UNCHANGED <<debug_assertions, opened, db, idgen, dirExists, files, locks,
                   paths, writers, remover, generating, ret, issued>>

\* text.parse::<StreamId>()
Parse ==
    /\ roundtrip.step = "formatted"
    /\ roundtrip' = [roundtrip EXCEPT !.step = "parsed",
                                      !.parsed = StreamId_from_str(roundtrip.text)]
    /\ UNCHANGED <<debug_assertions, opened, db, idgen, dirExists, files, locks,
                   paths, writers, remover, generating, ret, issued>>

IdentNext ==
    \/ \E debug \in BOOLEAN : Format(debug)
    \/ Parse

SpecIdent == IdentInit /\ [][IdentNext]_vars

\* ----------------------------------------------------------------- claims
\* The lock tokens alive for id: the StreamLock of every live writer on it,
\* and the one remove_stream holds while it runs.
WritersOn(id) == {w \in BagToSet(writers) : w.lock = id}

Tokens(id) ==
    BagCardinality([w \in WritersOn(id) |-> CopiesIn(w, writers)])
        + (IF remover = id THEN 1 ELSE 0)

WriterLive(id) == WritersOn(id) # {}

LockingCalls == {"append_local", "append_replicated", "remove", "remove_locked"}

\* C1: in every reachable state, for every stream id, the live writers on
\* the id plus a remove_stream in progress on it number at most one.
C1_AtMostOneToken == \A id \in AllIds : Tokens(id) <= 1

\* A writer is live on an id and a second call on that id was just refused.
C1_Witness ==
    /\ ret.op \in {"append_local", "append_replicated"}
    /\ ret.res = "Busy"
    /\ Tokens(ret.id) = 1
    /\ WriterLive(ret.id)

\* C2: while a writer for X is live, append_local_stream(X),
\* append_replicated_stream(X) and remove_stream(X) return Busy in the one
\* step of the call, never holding a token, and leave the KV, the data
\* files, the lock set and the live writers as they were.
C2_BusyChangesNothing ==
    [][\A id \in AllIds :
         (WriterLive(id) /\ ret'.op \in LockingCalls /\ ret'.id = id)
            => /\ ret'.res = "Busy"
               /\ ret'.op # "remove_locked"
               /\ db' = db
               /\ files' = files
               /\ locks' = locks
               /\ writers' = writers
               /\ remover' = remover]_vars

\* remove_stream was just refused on an id whose writer is live and locked.
C2_Witness ==
    /\ ret.op = "remove"
    /\ ret.res = "Busy"
    /\ WriterLive(ret.id)
    /\ ret.id \in locks
    /\ HasStream(ret.id)

\* C3 (as claimed): whenever no call is in progress, the lock set is
\* exactly the set of the ids of the live writers: every token that was
\* dropped has left the set.
C3_LocksAreLiveWriters ==
    (opened /\ remover = NoId) => locks = {w.lock : w \in BagToSet(writers)}

\* C4: a successful remove_stream(id) leaves no record under id, so streams()
\* does not list it; a record appears under an id only by a create of that
\* id; and slice and extract on an id without a record return NotFound.
C4_RemovedStaysGone ==
    [][/\ (ret'.op = "remove" /\ ret'.res = "Ok")
            => /\ StreamId_as_bytes(ret'.id) \notin DOMAIN db'
               /\ \A e \in streams' : e[1] # ret'.id
       /\ \A id \in AllIds :
            (~HasStream(id) /\ StreamId_as_bytes(id) \in DOMAIN db')
                => /\ ret'.op \in {"create_local", "create_replicated"}
                   /\ ret'.id = id
       /\ (ret'.op \in {"slice", "extract"} /\ ~HasStream(ret'.id))
            => ret'.res = "NotFound"]_vars

\* remove_stream just succeeded on a stream whose file a writer had made.
C4_Witness ==
    /\ ret.op = "remove"
    /\ ret.res = "Ok"
    /\ ~HasStream(ret.id)
    /\ StreamId_to_string(ret.id) \notin DOMAIN files

\* C5 (as claimed): create_replicated_stream on an id that has a record
\* returns AlreadyExists and leaves the KV as it was.
C5_CreateOnExistingFails ==
    [][(ret'.op = "create_replicated" /\ HasStream(ret'.id))
          => (ret'.res = "AlreadyExists" /\ db' = db)]_vars

\* C6 (as claimed): append_local_stream on an existing id of a peer that is
\* not the store's own key fails: it does not return Ok, it adds no writer
\* holding the store's key, and it leaves the KV as it was.
C6_ForeignAppendLocalFails ==
    [][(ret'.op = "append_local" /\ HasStream(ret'.id) /\ ret'.id.peer # LocalKey)
          => /\ ret'.res # "Ok"
             /\ writers' = writers
             /\ db' = db]_vars

\* C7 (as claimed): every open of a closed store succeeds, on a directory a
\* previous open initialised too, and lists the streams as they were stored.
C7_ReopenSucceeds ==
    [][ret'.op = "open" => (ret'.res = "Ok" /\ opened' /\ streams' = streams)]_vars

\* The byte length of the data file of id, when both record and file exist,
\* is the record's head.len.
FileMatchesHead(id) ==
    (HasStream(id) /\ StreamId_to_string(id) \in DOMAIN files)
        => Len(files[StreamId_to_string(id)])
             = ZeroCopy_to_inner(get_stream(id)).head.head.len

\* C8 (as claimed): right after open returns, before any writer is
\* admitted, every data file has the length head.len of its KV record.
C8_TruncatedOnOpen == (ret.op = "open") => \A id \in AllIds : FileMatchesHead(id)

\* C9: no two create_local_stream calls returned the same id, and every id
\* returned has the store's public key as peer.
C9_FreshLocalIds ==
    \A id \in BagToSet(issued) : CopiesIn(id, issued) = 1 /\ id.peer = LocalKey

\* A second create_local_stream call has just returned, and the stream the
\* first call created has been removed since.
C9_Witness ==
    /\ BagCardinality(issued) >= 2
    /\ ret.op = "create_local"
    /\ ~HasStream(StreamId_new(LocalKey, 0))
    /\ BagIn(StreamId_new(LocalKey, 0), issued)

\* C10: right after create_local_stream or create_replicated_stream(id)
\* returns, streams() lists id with the head (id, root of the empty input,
\* 0) and the all-zero signature, and the stored outboard is the hash-tree
\* outboard of the empty input, the 8-byte encoding of length 0.
C10_CreatedIsEmpty ==
    (ret.op \in {"create_local", "create_replicated"} /\ ret.res = "Ok")
       => /\ <<ret.id, [head |-> [id |-> ret.id, hash |-> BaoRoot(<<>>), len |-> 0],
                        sig |-> [i \in 1..SIG_LEN |-> 0]]>> \in streams
          /\ ZeroCopy_to_inner(get_stream(ret.id)).outboard = BaoOutboard(<<>>)
          /\ Len(ZeroCopy_to_inner(get_stream(ret.id)).outboard) = 8

\* create_local_stream just returned an id that streams() lists.
C10_Witness ==
    /\ ret.op = "create_local"
    /\ ret.res = "Ok"
    /\ \E e \in streams : e[1] = ret.id /\ e[2].head.len = 0

\* The signed head stored under id.
StoredHead(id) == ZeroCopy_to_inner(get_stream(id)).head

\* C11: invariant I1: every record stored under a key k has head.id = k, so
\* every pair (id, head) of streams() has head.head.id = id.
C11_HeadIdIsKey ==
    /\ \A k \in DOMAIN db :
          ZeroCopy_to_inner(db[k]).head.head.id = StreamId_from_bytes(k)
    /\ \A e \in streams : e[2].head.id = e[1]

\* A writer has just committed a non-empty head over a created record.
C11_Witness ==
    /\ ret.op \in {"commit", "replicated_append"}
    /\ ret.res = "Ok"
    /\ HasStream(ret.id)
    /\ StoredHead(ret.id).head.len > 0
    /\ StoredHead(ret.id).head.id = ret.id

\* C12: invariant I4: every record whose signature is not all zero verifies
\* under the peer key of the record's own id, whatever id the writer that
\* committed it was opened on.
C12_StoredSignaturesVerify ==
    \A k \in DOMAIN db :
        LET head == ZeroCopy_to_inner(db[k]).head
        IN head.sig # ZeroSig => SignedHead_verify(head, StreamId_from_bytes(k))

\* C13: invariant I2 at quiescence: whenever no lock is held for an id that
\* has a record, the data file of the id exists and its byte length equals
\* head.len.
C13_QuiescentFileMatchesHead ==
    \A id \in AllIds :
        (HasStream(id) /\ id \notin locks)
            => /\ StreamId_to_string(id) \in DOMAIN files
               /\ Len(files[StreamId_to_string(id)]) = StoredHead(id).head.len

\* C14: readers take no part in the exclusion: slice and extract never
\* return Busy and leave the lock set, the writers and the KV as they are;
\* on an existing stream with a live writer extract succeeds and slice
\* succeeds for a range within the head; the head extract hands out is the
\* signed head of the record, not the head of bytes the writer has written
\* and not committed.
C14_ReadersTakeNoLock ==
    [][ret'.op \in {"slice", "extract"}
          => /\ ret'.res # "Busy"
             /\ locks' = locks
             /\ writers' = writers
             /\ db' = db
             /\ (HasStream(ret'.id) /\ WriterLive(ret'.id))
                  => LET stored == StoredHead(ret'.id)
                         got == extract_slice(ret'.id, 0, stored.head.len).head
                     IN
                     IF ret'.op = "extract"
                     THEN /\ ret'.res = "Ok"
                          /\ got = stored
                          /\ \A w \in WritersOn(ret'.id) :
                               Len(w.data) > stored.head.len
                                   => got.head # CommittedHead(w).head
                     ELSE /\ ret'.res \in {"Ok", "RangeOutOfBounds"}
                          /\ \A start \in Ranges : \A len \in Ranges :
                               start + len <= stored.head.len
                                 => StreamReader_new(stream_path(ret'.id),
                                        stored.head, start, len) = "Ok"]_vars

\* extract returned Ok on a stream whose live writer has written a byte it
\* has not committed.
C14_Witness ==
    /\ ret.op = "extract"
    /\ ret.res = "Ok"
    /\ HasStream(ret.id)
    /\ ret.id \in locks
    /\ \E w \in WritersOn(ret.id) : Len(w.data) > StoredHead(ret.id).head.len

\* C15: extract on an existing stream whose data file can be read returns
\* RangeOutOfBounds when start + len exceeds head.len, and returns Ok only
\* for a range within [0, head.len].
C15_ExtractRangeChecked ==
    [][\A id \in Ids : \A start \in Ranges : \A len \in Ranges :
         (Extract(id, start, len) /\ HasStream(id)
            /\ StreamId_to_string(id) \in DOMAIN files)
             => /\ start + len > StoredHead(id).head.len
                     => ret'.res = "RangeOutOfBounds"
                /\ ret'.res = "Ok"
                     => start + len <= StoredHead(id).head.len]_vars

\* The signed head stored under id in the KV kv.
StoredHeadIn(kv, id) == ZeroCopy_to_inner(kv[StreamId_as_bytes(id)]).head

\* What SignedHead::set_signature and SignedHead::verify do with the signed
\* head sh: a signature made by `key` over the head is stored exactly when
\* key is the peer of the head's own id, a signature of the right key over
\* another head is refused, a refusal leaves sh as it was, and verify(id)
\* fails for every id other than the head's.
SignatureChecks(sh) ==
    /\ \A key \in Peers \cup {NoKey} :
          LET sig == Keypair_sign(key, Head_as_bytes(sh.head))
              set == SignedHead_set_signature(sh, sig)
          IN IF key = sh.head.id.peer
             THEN /\ set.ok
                  /\ set.head = [head |-> sh.head, sig |-> sig]
                  /\ SignedHead_verify(set.head, sh.head.id)
             ELSE /\ ~set.ok
                  /\ set.head = sh
    /\ sh.head # Head_new(sh.head.id)
          => LET other == Keypair_sign(sh.head.id.peer,
                              Head_as_bytes(Head_new(sh.head.id)))
                 set == SignedHead_set_signature(sh, other)
             IN ~set.ok /\ set.head = sh
    /\ \A id \in AllIds \cup {NoId} :
          id # sh.head.id => ~SignedHead_verify(sh, id)

\* C16: set_signature stores a signature only when it strictly verifies
\* over the head under the peer of the head's own id; a signature by any
\* other key is refused and the stored signature and head stay as they
\* were (the replicated writer's append returns the error and changes
\* nothing); verify(id) fails when id is not the head's id.
C16_SetSignatureVerifies ==
    [][ret'.op = "replicated_append"
          => /\ ret'.res \in {"Ok", "SignatureMismatch"}
             /\ ret'.res = "SignatureMismatch"
                  => (db' = db /\ files' = files /\ writers' = writers)
             /\ ret'.res = "Ok"
                  => (/\ StoredHeadIn(db', ret'.id).sig # ZeroSig
                      /\ SignedHead_verify(StoredHeadIn(db', ret'.id), ret'.id))
             /\ SignatureChecks(StoredHeadIn(db, ret'.id))
             /\ SignatureChecks(StoredHeadIn(db', ret'.id))]_vars

\* The replicated writer was handed a head signed by a key that is not the
\* stream's peer, and refused it.
C16_Witness ==
    /\ ret.op = "replicated_append"
    /\ ret.res = "SignatureMismatch"
    /\ HasStream(ret.id)
    /\ ~SignedHead_set_signature(StoredHead(ret.id),
            Keypair_sign(LocalKey, Head_as_bytes(StoredHead(ret.id).head))).ok

\* C17: the identifier round trip: for every peer array and stream number,
\* parsing the text form of StreamId::new(peer, stream) succeeds and gives
\* an id equal to the original.
C17_ParseOfFormatIsId ==
    roundtrip.step = "parsed"
        => /\ roundtrip.parsed.ok
           /\ roundtrip.parsed.id = roundtrip.id

\* The id whose peer bytes are all 255 and whose stream number is u64::MAX
\* has been formatted (43 characters, '.', 20 digits) and parsed back.
C17_Witness ==
    /\ roundtrip.step = "parsed"
    /\ roundtrip.id = StreamId_new([i \in 1..PEER_LEN |-> 255],
                                   [i \in 1..U64_LEN |-> 255])
    /\ Len(roundtrip.text) = 64
    /\ roundtrip.text[1] = "_"
    /\ roundtrip.text[64] = "5"
    /\ roundtrip.parsed.id = roundtrip.id

\* C18: every stream with a record and no live writer can be destroyed: a
\* remove_stream on it that found the lock free returns Ok and the record
\* is gone, also when the stream was created and never opened for append.
C18_RemoveSucceeds ==
    [][(ret'.op = "remove" /\ remover = ret'.id
          /\ HasStream(ret'.id) /\ ~WriterLive(ret'.id))
          => (ret'.res = "Ok" /\ StreamId_as_bytes(ret'.id) \notin DOMAIN db')]_vars

\* C19: the lock protects the record: while a writer holds the lock for an
\* id, the record under the id changes or goes only in a commit of a writer
\* on that id.
C19_RecordChangesOnlyByCommit ==
    [][\A id \in AllIds :
         (WriterLive(id) /\ HasStream(id)
            /\ (StreamId_as_bytes(id) \notin DOMAIN db' \/ StoredHeadIn(db', id) # StoredHead(id)
                  \/ db'[StreamId_as_bytes(id)] # get_stream(id)))
             => (ret'.op \in {"commit", "replicated_append"} /\ ret'.id = id)]_vars

\* C20: create_local_stream never overwrites: the id it returns has no
\* record when the call begins (when it takes the number from the
\* generator) and none when it inserts the empty record.
C20_CreateLocalNeverOverwrites ==
    [][/\ ret'.op = "generate_id"
            => ~HasStream(StreamId_new(create_local_peer, generate_id(idgen).id))
       /\ ret'.op = "create_local" => ~HasStream(ret'.id)]_vars

====
